---- MODULE Spec2Model ----
(***************************************************************************)
(* Model of sumo_project/emissions.py: the run loop (run), the per-step    *)
(* per-Area aggregation and threshold policy (get_emissions), and the      *)
(* teardown in run's finally block.  The modules actions, model and config *)
(* are imported by emissions.py; their effects on the Area flags and the   *)
(* windowed sum are modelled by the operators named after their functions. *)
(* The grid builder (init_grid) and SUMOFactory.lock_area are functions of *)
(* their inputs; SpecGrid and SpecFactory apply them to inputs drawn from  *)
(* bounded sets.                                                           *)
(***************************************************************************)
EXTENDS Integers, Sequences, FiniteSets, TLC

\* ------------------------------------------------------------------ bounds
NumAreas == 2        \* Areas of the grid, laid out in a row
NumVehicles == 1     \* most vehicles the simulator reports in a step
MaxEmission == 1     \* largest per-vehicle emission reading
MaxWindow == 2       \* window_size ranges over 1..MaxWindow
Threshold == 2       \* emissions_threshold of the runs explored
MaxSteps == 3        \* n_steps of the runs explored
MaxCoord == 3        \* largest coordinate of a corner of the network boundary
MaxCells == 2        \* areas_number ranges up to MaxCells

Areas == 1..NumAreas
\* Positions on a line: 2a-1 lies strictly inside Area a, 2a lies on the
\* boundary shared by Areas a and a+1.
Positions == 1..(2 * NumAreas - 1)

NotEmitted == -1
NoArea == 0

\* Lanes: lane l is drawn from position l; its shape is the stretch of
\* positions <<lo, hi>> it runs over
Lanes == Positions

\* ------------------------------------------------------------ pure helpers
RECURSIVE SumFrom(_, _)
\* sum of seq[from..Len(seq)], accumulated left to right
SumFrom(seq, from) ==
    IF from > Len(seq) THEN 0 ELSE seq[from] + SumFrom(seq, from + 1)

\* model.Area.sum_all_emissions: sum of the whole sequence
sum_all_emissions(seq) == SumFrom(seq, 1)

\* model.Area.sum_emissions_into_window: sum of the last window_size entries
\* of the sequence, all of them when fewer exist
sum_emissions_into_window(seq, current_step, window_size) ==
    SumFrom(seq, IF Len(seq) > window_size THEN Len(seq) - window_size + 1 ELSE 1)

\* model.Area.__contains__: closed rectangle, a boundary point is inside
Contains(a, p) == p \in {2 * a - 2, 2 * a - 1, 2 * a}

\* A lane shape <<lo, hi>> is the segment of the positions lo..hi.
LaneShapes == {sh \in Positions \X Positions : sh[1] <= sh[2]}

\* area.rectangle.intersects(polygon_lane): true as soon as the segment
\* touches the rectangle
Intersects(a, shape) == \E p \in shape[1]..shape[2] : Contains(a, p)

\* a vehicle of a snapshot: its position and its emission reading; a snapshot
\* gives the number of vehicles of each kind (vehicle ids play no role in
\* get_emissions)
VehicleRecords == [pos : Positions, emissions : 1..MaxEmission]

RECURSIVE SumOver(_, _)
SumOver(S, f) ==
    IF S = {} THEN 0
    ELSE LET x == CHOOSE y \in S : TRUE IN f[x] + SumOver(S \ {x}, f)

\* get_all_vehicles: the snapshots it can return
Snapshots ==
    {vs \in [VehicleRecords -> 0..NumVehicles] : SumOver(VehicleRecords, vs) <= NumVehicles}

\* get_emissions, lines 90-93: the emissions of the vehicles inside the Area
VehicleEmissions(a, vehs) ==
    LET inside == {v \in VehicleRecords : Contains(a, v.pos)}
    IN SumOver(inside, [v \in inside |-> vehs[v] * v.emissions])

\* actions.count_vehicles_in_area: the simulator's count of the vehicles on
\* the lanes of the Area; occupied is the set of Areas it reports vehicles for
count_vehicles_in_area(a, occupied) == IF a \in occupied THEN 1 ELSE 0

\* get_emissions, line 95: one entry appended per Area per step
AppendStepSkipZero(seq, ve) == IF ve = 0 THEN seq ELSE Append(seq, ve)
AppendStep(seq, ve) == Append(seq, ve)

\* get_emissions, line 97: the comparison with the threshold
OverThresholdStrict(wsum, cfg) == wsum > cfg.emissions_threshold
OverThreshold(wsum, cfg) == wsum >= cfg.emissions_threshold

\* get_emissions, line 97: the windowed sum of the Area at the current step
WindowedSumWrongField(seq, current_step, cfg) ==
    sum_emissions_into_window(seq, current_step, cfg.n_steps)
WindowedSum(seq, current_step, cfg) ==
    sum_emissions_into_window(seq, current_step, cfg.window_size)

\* get_emissions, line 99
limit_speed_guard_no_flag(cfg, fl) == cfg.limit_speed_mode
limit_speed_guard(cfg, fl) == cfg.limit_speed_mode /\ ~fl.limited_speed

\* get_emissions, lines 99-104: the traffic-light block is nested in the
\* speed-limit block
TLReachedDedented(tryLimit) == TRUE
TLReached(tryLimit) == tryLimit

\* get_emissions, line 102
adjust_tl_guard(cfg, fl) == cfg.adjust_traffic_light_mode /\ ~fl.tls_adjusted

\* get_emissions, line 106
lock_guard(cfg, fl) == cfg.lock_area_mode /\ ~fl.locked

\* get_emissions, line 107
LockOccupiedAlways(count) == TRUE
LockOccupied(count) == count # 0

\* ---------------------------------------------------- actions (flag effects)
AllClear == [limited_speed |-> FALSE, tls_adjusted |-> FALSE, locked |-> FALSE]
AnyActive(fl) == fl.limited_speed \/ fl.tls_adjusted \/ fl.locked

\* actions.limit_speed_into_area: the flag is set only when the lane calls succeed
limit_speed_into_area(fl, ok) == IF ok THEN [fl EXCEPT !.limited_speed = TRUE] ELSE fl

\* actions.adjust_traffic_light_phase_duration
adjust_traffic_light_phase_duration(fl, ok) ==
    IF ok THEN [fl EXCEPT !.tls_adjusted = TRUE] ELSE fl

\* actions.lock_area
lock_area(fl, ok) == IF ok THEN [fl EXCEPT !.locked = TRUE] ELSE fl

\* actions.reverse_actions: undoes every active action and clears the three
\* flags, all or nothing; with no active flag it has nothing to undo
reverse_actions(fl, ok) == IF AnyActive(fl) /\ ~ok THEN fl ELSE AllClear

\* simulator writes issued by reverse_actions
reverse_writes(fl) ==
    (IF fl.limited_speed \/ fl.locked THEN {"lane.setMaxSpeed"} ELSE {})
    \cup (IF fl.tls_adjusted THEN {"trafficlight.setProgram"} ELSE {})
    \cup (IF fl.locked THEN {"vehicle.reroute"} ELSE {})

\* actions.limit_speed_into_area on the simulator: the current maximum speed
\* of every lane of the Area is scaled by the reduction factor (one half here)
limited_lanes(speed, lanes) ==
    [l \in DOMAIN speed |-> IF l \in lanes THEN speed[l] \div 2 ELSE speed[l]]

\* actions.lock_area on the simulator: the near-zero speed of a locked lane
LockedSpeed == 0

\* actions.lock_area on the simulator: every lane of the Area gets the
\* near-zero speed
locked_lanes(speed, lanes) ==
    [l \in DOMAIN speed |-> IF l \in lanes THEN LockedSpeed ELSE speed[l]]

\* actions.reverse_actions on the simulator: every lane of the Area gets back
\* its recorded initial maximum speed
restored_lanes(speed, lanes, initial) ==
    [l \in DOMAIN speed |-> IF l \in lanes THEN initial[l] ELSE speed[l]]

\* the lane speeds after the evaluation of an Area that took the flags from
\* pre to post: the effects of the calls that succeeded, in the order of the
\* calls
lane_effects(speed, lanes, initial, over, pre, post) ==
    IF over
    THEN LET s1 == IF ~pre.limited_speed /\ post.limited_speed
                   THEN limited_lanes(speed, lanes) ELSE speed
         IN IF ~pre.locked /\ post.locked THEN locked_lanes(s1, lanes) ELSE s1
    ELSE IF (pre.limited_speed \/ pre.locked) /\ post = AllClear
         THEN restored_lanes(speed, lanes, initial) ELSE speed

\* ----------------------------------------- get_emissions, body for one Area
ActionCalls == {"limit_speed_into_area", "adjust_traffic_light_phase_duration",
                "lock_area", "reverse_actions"}

\* lines 99-112: the branch taken when the windowed sum is over the threshold
OverBranch(cfg, fl, count, fail) ==
    LET tryLimit == limit_speed_guard(cfg, fl)
        limitOk == tryLimit /\ fail # "limit_speed_into_area"
        f1 == IF tryLimit THEN limit_speed_into_area(fl, limitOk) ELSE fl
        raised1 == tryLimit /\ ~limitOk
        tryTL == ~raised1 /\ TLReached(tryLimit) /\ adjust_tl_guard(cfg, f1)
        tlOk == tryTL /\ fail # "adjust_traffic_light_phase_duration"
        f2 == IF tryTL THEN adjust_traffic_light_phase_duration(f1, tlOk) ELSE f1
        raised2 == raised1 \/ (tryTL /\ ~tlOk)
        tryCount == ~raised2 /\ lock_guard(cfg, f2)
        tryLock == tryCount /\ LockOccupied(count)
        lockOk == tryLock /\ fail # "lock_area"
        f3 == IF tryLock THEN lock_area(f2, lockOk) ELSE f2
        raised3 == raised2 \/ (tryLock /\ ~lockOk)
    IN [flags |-> f3,
        calls |-> (IF tryLimit THEN {"limit_speed_into_area"} ELSE {})
                  \cup (IF tryTL THEN {"adjust_traffic_light_phase_duration"} ELSE {})
                  \cup (IF tryCount THEN {"count_vehicles_in_area"} ELSE {})
                  \cup (IF tryLock THEN {"lock_area"} ELSE {})
                  \cup (IF raised3 THEN {} ELSE {"polygon.setColor"}),
        writes |-> (IF tryLimit \/ tryLock THEN {"lane.setMaxSpeed"} ELSE {})
                   \cup (IF tryTL THEN {"trafficlight.setProgram"} ELSE {})
                   \cup (IF tryLock THEN {"vehicle.reroute"} ELSE {}),
        raised |-> raised3,
        failedCall |-> IF raised3 THEN fail ELSE "none"]

\* lines 114-115: the branch taken when the windowed sum is under the threshold
UnderBranchSkipped(cfg, fl, fail) ==
    [flags |-> fl, calls |-> {}, writes |-> {}, raised |-> FALSE, failedCall |-> "none"]
UnderBranch(cfg, fl, fail) ==
    LET ok == fail # "reverse_actions"
        raised == AnyActive(fl) /\ ~ok
    IN [flags |-> reverse_actions(fl, ok),
        calls |-> {"reverse_actions"},
        writes |-> reverse_writes(fl),
        raised |-> raised,
        failedCall |-> IF raised THEN fail ELSE "none"]

\* ------------------------------------------------------------------- state
VARIABLES
    config,            \* the Config object passed to run
    pc,                \* position of run: start, load, loop, finally, done, raised
    step,              \* run's step counter
    grid,              \* run's grid: the list of Areas
    emissions_by_step, \* area.emissions_by_step
    limited_speed,     \* area.limited_speed
    tls_adjusted,      \* area.tls_adjusted
    locked,            \* area.locked
    conn,              \* the simulator connection: none, open, closed
    start_bound,       \* whether run's local variable start has been assigned
    exc,               \* the exception propagating out of run, if any
    total_emissions,   \* the total logged by the finally block, NotEmitted before
    last,              \* observation: each Area's evaluation in the latest step
                       \* (count is the result of count_vehicles_in_area when called)
    failed,            \* observation: the action call that failed, if any
    n_limit_calls,     \* observation: invocations of limit_speed_into_area per Area
    n_weight_calls,    \* observation: invocations of actions.adjust_edges_weights
    sampled,           \* observation: the emissions of all vehicles sampled so far
    other_order,       \* observation: the outcome the latest step would have had
                       \* with the Areas evaluated in the reverse of grid order
    initial_max_speed, \* lane.initial_max_speed of each Lane object
    vehicles,          \* run's local variable vehicles: the latest snapshot
    lane_shape,        \* simulator: traci.lane.getShape of each lane
    lane_speed,        \* simulator: the maximum speed of each lane
    simulation_bounds, \* init_grid's argument: <<min corner, max corner>>
    areas_number,      \* init_grid's argument
    cells,             \* the list init_grid returned
    grid_result,       \* outcome of init_grid: pending, returned or the error raised
    factory_area,      \* the Area SUMOFactory.lock_area was called for, NoArea before
    rerouted           \* the vehicles SUMOFactory.lock_area rerouted

mainVars == <<config, pc, step, grid, emissions_by_step, limited_speed, tls_adjusted,
              locked, conn, start_bound, exc, total_emissions, last, failed,
              n_limit_calls, n_weight_calls, sampled, other_order, initial_max_speed>>

gridVars == <<simulation_bounds, areas_number, cells, grid_result>>

factoryVars == <<factory_area, rerouted>>

vars == <<config, pc, step, grid, emissions_by_step, limited_speed, tls_adjusted,
          locked, conn, start_bound, exc, total_emissions, last, failed,
          n_limit_calls, n_weight_calls, sampled, other_order, initial_max_speed,
          vehicles, lane_shape, lane_speed, simulation_bounds,
          areas_number, cells, grid_result, factory_area, rerouted>>

\* the Config object main gets from the configuration file (lines 176-178):
\* without_actions_mode is only ever set by main
FileConfigs ==
    [limit_speed_mode : BOOLEAN, adjust_traffic_light_mode : BOOLEAN,
     lock_area_mode : BOOLEAN, weight_routing_mode : BOOLEAN,
     without_actions_mode : {FALSE},
     window_size : 1..MaxWindow, emissions_threshold : 1..Threshold,
     n_steps : {MaxSteps}]

\* config.Config.check_config: the without-actions mode disables every
\* intervention
check_config(cfg) ==
    IF cfg.without_actions_mode
    THEN [cfg EXCEPT !.limit_speed_mode = FALSE, !.adjust_traffic_light_mode = FALSE,
                     !.lock_area_mode = FALSE, !.weight_routing_mode = FALSE]
    ELSE cfg

\* main, lines 176-186: the configuration run is called with; ref is the
\* command line option -ref
mainNoCheck(cfg, ref) ==
    IF ref THEN [cfg EXCEPT !.without_actions_mode = TRUE] ELSE cfg
main(cfg, ref) ==
    IF ref THEN check_config([cfg EXCEPT !.without_actions_mode = TRUE]) ELSE cfg

Configs == {main(cfg, ref) : cfg \in FileConfigs, ref \in BOOLEAN}

NoEval == [evaluated |-> FALSE, step |-> 0, wsum |-> 0, count |-> 0, pre |-> AllClear,
           calls |-> {}, writes |-> {}, raised |-> FALSE]
NoFailure == [area |-> NoArea, step |-> 0, call |-> "none"]

\* add_data_to_areas, lines 55-58: the lanes of the Area a, every lane whose
\* shape intersects its rectangle
AreaLanes(a) == {l \in Lanes : Intersects(a, lane_shape[l])}

\* the fields of the Areas and the lane speeds, gathered for get_emissions
AreaState ==
    [ebs |-> emissions_by_step, ls |-> limited_speed, tls |-> tls_adjusted,
     lk |-> locked, last |-> [a \in Areas |-> NoEval], failed |-> failed,
     nlc |-> n_limit_calls, speed |-> lane_speed, raised |-> FALSE]

\* get_emissions, lines 90-115: the body of the loop for the Area a
EvalArea(st, a, vehs, occupied, cfg, current_step, fail) ==
    LET fl == [limited_speed |-> st.ls[a], tls_adjusted |-> st.tls[a], locked |-> st.lk[a]]
        ve == VehicleEmissions(a, vehs)
        seq == AppendStep(st.ebs[a], ve)
        wsum == WindowedSum(seq, current_step, cfg)
        count == count_vehicles_in_area(a, occupied)
        failing == IF fail[1] = a THEN fail[2] ELSE "none"
        over == OverThreshold(wsum, cfg)
        r == IF over THEN OverBranch(cfg, fl, count, failing)
             ELSE UnderBranch(cfg, fl, failing)
    IN [ebs |-> [st.ebs EXCEPT ![a] = seq],
        ls |-> [st.ls EXCEPT ![a] = r.flags.limited_speed],
        tls |-> [st.tls EXCEPT ![a] = r.flags.tls_adjusted],
        lk |-> [st.lk EXCEPT ![a] = r.flags.locked],
        last |-> [st.last EXCEPT ![a] =
                    [evaluated |-> TRUE, step |-> current_step, wsum |-> wsum,
                     count |-> IF "count_vehicles_in_area" \in r.calls THEN count ELSE 0,
                     pre |-> fl, calls |-> r.calls,
                     writes |-> r.writes, raised |-> r.raised]],
        failed |-> IF r.raised
                   THEN [area |-> a, step |-> current_step, call |-> r.failedCall]
                   ELSE st.failed,
        nlc |-> [st.nlc EXCEPT ![a] =
                    @ + IF "limit_speed_into_area" \in r.calls THEN 1 ELSE 0],
        speed |-> lane_effects(st.speed, AreaLanes(a), initial_max_speed, over,
                               fl, r.flags),
        raised |-> r.raised]

RECURSIVE get_emissions(_, _, _, _, _, _, _)
\* get_emissions, lines 88-89: the Areas in grid order; an exception ends the loop
get_emissions(st, g, vehs, occupied, cfg, current_step, fail) ==
    IF g = <<>> \/ st.raised THEN st
    ELSE get_emissions(EvalArea(st, Head(g), vehs, occupied, cfg, current_step, fail),
                       Tail(g), vehs, occupied, cfg, current_step, fail)

\* no vehicle in the simulation
NoVehicles == [v \in VehicleRecords |-> 0]

\* get_all_lanes, line 36: the maximum speed the simulator reports for a lane
\* of the loaded network
LaneMaxSpeed == 4

\* the simulator before run is entered: in the runs of Spec lane l lies at
\* position l, so that lane 2a crosses the boundary of Areas a and a+1
SimulatorInit ==
    /\ lane_shape = [l \in Lanes |-> <<l, l>>]
    /\ lane_speed = [l \in Lanes |-> LaneMaxSpeed]

\* init_grid not called
GridIdle ==
    /\ simulation_bounds = <<<<0, 0>>, <<MaxCoord, MaxCoord>>>>
    /\ areas_number = NumAreas
    /\ cells = <<>>
    /\ grid_result = "pending"

\* SUMOFactory.lock_area not called
FactoryIdle ==
    /\ factory_area = NoArea
    /\ rerouted = {}

\* what a step leaves in the Areas and in the simulator's lanes
Outcome(st) ==
    [emissions_by_step |-> st.ebs, limited_speed |-> st.ls, tls_adjusted |-> st.tls,
     locked |-> st.lk, lane_speed |-> st.speed]

\* no step evaluated yet
NoOutcome == [emissions_by_step |-> <<>>, limited_speed |-> <<>>, tls_adjusted |-> <<>>,
              locked |-> <<>>, lane_speed |-> <<>>]

\* a list of Areas in the opposite order
Reverse(g) == [i \in 1..Len(g) |-> g[Len(g) + 1 - i]]

\* get_all_vehicles, line 83: the emissions of all the vehicles of a snapshot
SnapshotEmissions(vehs) ==
    SumOver(VehicleRecords, [v \in VehicleRecords |-> vehs[v] * v.emissions])

\* run is entered with the configuration cfg
RunInit(cfg) ==
    /\ config = cfg
    /\ pc = "start"
    /\ step = 0
    /\ grid = <<>>
    /\ emissions_by_step = [a \in Areas |-> <<>>]
    /\ limited_speed = [a \in Areas |-> FALSE]
    /\ tls_adjusted = [a \in Areas |-> FALSE]
    /\ locked = [a \in Areas |-> FALSE]
    /\ conn = "none"
    /\ start_bound = FALSE
    /\ exc = "none"
    /\ total_emissions = NotEmitted
    /\ last = [a \in Areas |-> NoEval]
    /\ failed = NoFailure
    /\ n_limit_calls = [a \in Areas |-> 0]
    /\ n_weight_calls = 0
    /\ sampled = 0
    /\ other_order = NoOutcome
    /\ initial_max_speed = <<>>

Init ==
    /\ \E cfg \in Configs : RunInit(cfg)
    /\ vehicles = NoVehicles
    /\ SimulatorInit
    /\ GridIdle
    /\ FactoryIdle

areaVars == <<emissions_by_step, limited_speed, tls_adjusted, locked, last, failed,
              n_limit_calls>>

\* what only the simulation loop touches
stepVars == <<vehicles, lane_speed, n_weight_calls, sampled, other_order>>

\* what no statement of run touches
otherVars == <<lane_shape, gridVars, factoryVars>>

\* run, line 121: traci.start
TraciStart ==
    /\ pc = "start"
    /\ \E ok \in BOOLEAN :
          IF ok THEN /\ conn' = "open"
                     /\ pc' = "load"
                     /\ exc' = exc
                ELSE /\ conn' = conn
                     /\ pc' = "finally"
                     /\ exc' = "connection"
    /\ UNCHANGED <<config, step, grid, start_bound, total_emissions>>
    /\ UNCHANGED areaVars
    /\ UNCHANGED <<stepVars, initial_max_speed, otherVars>>

\* run, lines 122-133: start is assigned, then the grid and the index are built
LoadData ==
    /\ pc = "load"
    /\ start_bound' = TRUE
    /\ \E outcome \in {"ok", "init_grid_fails", "add_data_to_areas_fails"} :
          /\ grid' = IF outcome = "init_grid_fails" THEN grid
                     ELSE [i \in 1..NumAreas |-> i]
          /\ pc' = IF outcome = "ok" THEN "loop" ELSE "finally"
          /\ exc' = IF outcome = "ok" THEN exc ELSE "connection"
          \* get_all_lanes, line 36, called by add_data_to_areas
          /\ initial_max_speed' = IF outcome = "ok" THEN lane_speed
                                  ELSE initial_max_speed
    /\ UNCHANGED <<config, step, conn, total_emissions>>
    /\ UNCHANGED areaVars
    /\ UNCHANGED <<stepVars, otherVars>>

\* run, line 135: traci.simulationStep fails, the connection is lost
SimulationStepFails ==
    /\ pc = "loop"
    /\ step < config.n_steps
    /\ pc' = "finally"
    /\ exc' = "connection"
    /\ UNCHANGED <<config, step, grid, conn, start_bound, total_emissions>>
    /\ UNCHANGED areaVars
    /\ UNCHANGED <<stepVars, initial_max_speed, otherVars>>

\* run, lines 134-143: one iteration of the simulation loop
SimulationStep ==
    /\ pc = "loop"
    /\ step < config.n_steps
    /\ \E vs \in Snapshots, occupied \in SUBSET Areas,
          fail \in {<<NoArea, "none">>} \cup (Areas \X ActionCalls) :
        \E st \in {get_emissions(AreaState, grid, vs, occupied, config, step, fail)} :
           /\ emissions_by_step' = st.ebs
           /\ limited_speed' = st.ls
           /\ tls_adjusted' = st.tls
           /\ locked' = st.lk
           /\ last' = st.last
           /\ failed' = st.failed
           /\ n_limit_calls' = st.nlc
           /\ vehicles' = vs
           /\ sampled' = sampled + SnapshotEmissions(vs)
           /\ lane_speed' = st.speed
           /\ other_order' = Outcome(get_emissions(AreaState, Reverse(grid), vs,
                                                   occupied, config, step, fail))
           /\ n_weight_calls' = n_weight_calls +
                 IF ~st.raised /\ config.weight_routing_mode THEN 1 ELSE 0
           /\ IF st.raised
              THEN /\ pc' = "finally"
                   /\ exc' = "action"
                   /\ step' = step
              ELSE \E weights_ok \in {TRUE} \cup {~config.weight_routing_mode} :
                      IF weights_ok
                      THEN /\ pc' = "loop"
                           /\ exc' = exc
                           /\ step' = step + 1
                      ELSE \* line 141: actions.adjust_edges_weights fails
                           /\ pc' = "finally"
                           /\ exc' = "connection"
                           /\ step' = step
    /\ UNCHANGED <<config, grid, conn, start_bound, total_emissions>>
    /\ UNCHANGED <<initial_max_speed, otherVars>>

\* run, line 134: the loop ends after n_steps steps
LoopExit ==
    /\ pc = "loop"
    /\ step >= config.n_steps
    /\ pc' = "finally"
    /\ UNCHANGED <<config, step, grid, conn, start_bound, exc, total_emissions>>
    /\ UNCHANGED areaVars
    /\ UNCHANGED <<stepVars, initial_max_speed, otherVars>>

RECURSIVE SumGrid(_, _)
\* run, lines 150-152: the total over the Areas of the grid
SumGrid(g, ebs) ==
    IF g = <<>> THEN 0 ELSE sum_all_emissions(ebs[Head(g)]) + SumGrid(Tail(g), ebs)

\* run, lines 145-160: the finally block
Finally ==
    /\ pc = "finally"
    /\ conn' = "closed"
    /\ IF start_bound
       THEN /\ total_emissions' = SumGrid(grid, emissions_by_step)
            /\ exc' = exc
            /\ pc' = IF exc = "none" THEN "done" ELSE "raised"
       ELSE \* line 147 reads start, which line 124 never assigned
            /\ total_emissions' = total_emissions
            /\ exc' = "unbound_start"
            /\ pc' = "raised"
    /\ UNCHANGED <<config, step, grid, start_bound>>
    /\ UNCHANGED areaVars
    /\ UNCHANGED <<stepVars, initial_max_speed, otherVars>>

Next ==
    \/ TraciStart
    \/ LoadData
    \/ SimulationStepFails
    \/ SimulationStep
    \/ LoopExit
    \/ Finally

Spec == Init /\ [][Next]_vars

\* ------------------------------------------------------------ grid builder
\* Coordinates of the cells are quotients by areas_number (lines 18-19); a
\* cell keeps their numerators, that is the coordinates multiplied by
\* areas_number, so that the arithmetic is exact.

\* init_grid, line 18: the numerator of width = simulation_bounds[1][0] / areas_number
CellWidth(bounds) == bounds[2][1]

\* init_grid, line 19: the numerator of height = simulation_bounds[1][1] / areas_number
CellHeight(bounds) == bounds[2][2]

\* init_grid, lines 23-26: the Area of row i and column j
Cell(bounds, i, j) ==
    [name |-> <<i, j>>,
     xmin |-> i * CellWidth(bounds), ymin |-> j * CellHeight(bounds),
     xmax |-> (i + 1) * CellWidth(bounds), ymax |-> (j + 1) * CellHeight(bounds)]

\* init_grid, lines 16-29: the division raises for areas_number = 0, range()
\* is empty for a negative areas_number
init_grid(bounds, n) ==
    IF n = 0 THEN [error |-> "ZeroDivisionError", grid |-> <<>>]
    ELSE [error |-> "none",
          grid |-> IF n < 0 THEN <<>>
                   ELSE [k \in 1..(n * n) |-> Cell(bounds, (k - 1) \div n, (k - 1) % n)]]

\* the network boundaries and cell counts init_grid is applied to
NetBoundaries ==
    {b \in ((-1..1) \X (-1..1)) \X ((2..MaxCoord) \X (2..MaxCoord)) : TRUE}

\* the inputs of init_grid are drawn; run is not entered
InitGrid ==
    /\ RunInit(CHOOSE cfg \in Configs : TRUE)
    /\ vehicles = NoVehicles
    /\ SimulatorInit
    /\ FactoryIdle
    /\ simulation_bounds \in NetBoundaries
    /\ areas_number \in -1..MaxCells
    /\ cells = <<>>
    /\ grid_result = "pending"

\* run, line 126: grid = init_grid(traci.simulation.getNetBoundary(), config.areas_number)
CallInitGrid ==
    /\ grid_result = "pending"
    /\ \E r \in {init_grid(simulation_bounds, areas_number)} :
          /\ cells' = r.grid
          /\ grid_result' = IF r.error = "none" THEN "returned" ELSE r.error
    /\ UNCHANGED <<simulation_bounds, areas_number>>
    /\ UNCHANGED <<mainVars, vehicles, lane_shape, lane_speed, factoryVars>>

NextGrid == CallInitGrid

SpecGrid == InitGrid /\ [][NextGrid]_vars

\* ------------------------------------------------------------ SUMOFactory
\* SUMOFactory.lanes_in_area, lines 15-19
lanes_in_area(a) == {l \in Lanes : Intersects(a, lane_shape[l])}

\* SUMOFactory.lock_area, line 25: traci.lane.setMaxSpeed(lane_id, 30)
FactoryLockSpeed == 30

\* traci.vehicle.getIDList(): the vehicles of the snapshot
VehiclesOf(vehs) == {v \in VehicleRecords : vehs[v] > 0}

\* the road network and the vehicles lock_area is applied to are drawn
InitFactory ==
    /\ RunInit(CHOOSE cfg \in Configs : TRUE)
    /\ GridIdle
    /\ FactoryIdle
    /\ lane_shape \in [Lanes -> LaneShapes]
    /\ lane_speed = [l \in Lanes |-> LaneMaxSpeed]
    /\ vehicles \in Snapshots

\* SUMOFactory.lock_area, lines 22-28: the lanes of the area get the speed
\* 30, then every vehicle of the simulation is rerouted
FactoryLockArea(a) ==
    /\ factory_area = NoArea
    /\ factory_area' = a
    /\ lane_speed' = [l \in Lanes |->
                        IF l \in lanes_in_area(a) THEN FactoryLockSpeed
                        ELSE lane_speed[l]]
    /\ rerouted' = VehiclesOf(vehicles)
    /\ UNCHANGED <<mainVars, vehicles, lane_shape, gridVars>>

NextFactory == \E a \in Areas : FactoryLockArea(a)

SpecFactory == InitFactory /\ [][NextFactory]_vars

\* ------------------------------------------------------------ properties
Exited == pc \in {"done", "raised"}

TypeOK ==
    /\ pc \in {"start", "load", "loop", "finally", "done", "raised"}
    /\ step \in 0..MaxSteps
    /\ conn \in {"none", "open", "closed"}
    /\ \A a \in Areas : Len(emissions_by_step[a]) <= MaxSteps

ActivationCalls == {"limit_speed_into_area", "adjust_traffic_light_phase_duration",
                    "lock_area"}

RECURSIVE SumIdx(_, _, _)
\* s_lo + ... + s_hi of a sequence whose entries are numbered from 0
SumIdx(seq, lo, hi) ==
    IF hi < lo THEN 0 ELSE seq[hi + 1] + SumIdx(seq, lo, hi - 1)

\* the rolling sum at step k for window W: s_max(0,k-W+1) + ... + s_k
RollingSum(seq, k, W) == SumIdx(seq, IF k - W + 1 > 0 THEN k - W + 1 ELSE 0, k)

\* whether the Area with sequence seq is at or over the threshold at step k
OverAt(seq, k) ==
    RollingSum(seq, k, config.window_size) >= config.emissions_threshold

\* the latest step of Area a, for an Area that has been evaluated
LastStep(a) == Len(emissions_by_step[a]) - 1
OverNow(a) == OverAt(emissions_by_step[a], LastStep(a))

\* the steps at which the windowed sum goes from below to at-or-above threshold
Crossings(seq) ==
    {k \in 0..(Len(seq) - 1) : OverAt(seq, k) /\ (k = 0 \/ ~OverAt(seq, k - 1))}

\* C1: an Area's traffic lights are adjusted only while its speed is limited;
\* with speed limiting disabled and traffic-light adjustment enabled the
\* traffic-light flag never becomes true and the adjustment is never invoked.
Gating ==
    /\ \A a \in Areas : tls_adjusted[a] => limited_speed[a]
    /\ (~config.limit_speed_mode /\ config.adjust_traffic_light_mode) =>
          \A a \in Areas :
             /\ ~tls_adjusted[a]
             /\ "adjust_traffic_light_phase_duration" \notin last[a].calls

\* an Area over threshold in a run with traffic-light adjustment enabled and
\* speed limiting disabled
GatingWitness ==
    /\ ~config.limit_speed_mode
    /\ config.adjust_traffic_light_mode
    /\ \E a \in Areas : last[a].evaluated /\ ~last[a].raised /\ OverNow(a)

\* C2: with speed limiting enabled, limit_speed_into_area is invoked exactly at
\* the steps where the windowed sum goes from below to at-or-above (>=) the
\* threshold, once per crossing, and a successful call turns speed_limited
\* from false to true; it is not invoked while the Area stays over threshold.
ThresholdCrossing ==
    config.limit_speed_mode =>
      \A a \in Areas :
         /\ n_limit_calls[a] = Cardinality(Crossings(emissions_by_step[a]))
         /\ last[a].evaluated =>
               /\ "limit_speed_into_area" \in last[a].calls
                     <=> LastStep(a) \in Crossings(emissions_by_step[a])
               /\ "limit_speed_into_area" \in last[a].calls =>
                     /\ ~last[a].pre.limited_speed
                     /\ ~last[a].raised => limited_speed[a]

\* an Area that crossed the threshold at an earlier step, was limited once and
\* is still over threshold at a later step without a second invocation
ThresholdCrossingWitness ==
    /\ config.limit_speed_mode
    /\ \E a \in Areas :
          /\ last[a].evaluated /\ ~last[a].raised
          /\ OverNow(a)
          /\ LastStep(a) \notin Crossings(emissions_by_step[a])
          /\ n_limit_calls[a] = 1
          /\ limited_speed[a]
          /\ "limit_speed_into_area" \notin last[a].calls

\* C3: when the evaluation of an Area whose windowed sum is below the threshold
\* completes, its three flags are false, whatever they were before the step.
AllOrNothingReversal ==
    \A a \in Areas :
       (last[a].evaluated /\ ~last[a].raised /\ ~OverNow(a)) =>
          (~limited_speed[a] /\ ~tls_adjusted[a] /\ ~locked[a])

\* an Area that entered a below-threshold step with its three flags true
AllOrNothingReversalWitness ==
    \E a \in Areas :
       /\ last[a].evaluated /\ ~last[a].raised /\ ~OverNow(a)
       /\ last[a].pre.limited_speed /\ last[a].pre.tls_adjusted /\ last[a].pre.locked
       /\ ~limited_speed[a] /\ ~tls_adjusted[a] /\ ~locked[a]

\* the enabled actions of Area a were all active before its latest evaluation
StableOver(a) ==
    /\ OverNow(a)
    /\ config.limit_speed_mode => last[a].pre.limited_speed
    /\ config.adjust_traffic_light_mode => last[a].pre.tls_adjusted
    /\ config.lock_area_mode => last[a].pre.locked

StableUnder(a) == ~OverNow(a) /\ last[a].pre = AllClear

\* C4 as stated: re-evaluating an Area in a stable configuration issues no
\* activation call when it is over threshold with its enabled flags true, and
\* no call of reverse_actions when it is under threshold with all flags false.
IdempotenceAsStated ==
    \A a \in Areas :
       last[a].evaluated =>
          /\ StableOver(a) => last[a].calls \cap ActivationCalls = {}
          /\ StableUnder(a) => "reverse_actions" \notin last[a].calls

\* C4, amended: re-evaluating an Area in a stable configuration issues no
\* activation call when it is over threshold with its enabled flags true; when
\* it is under threshold with all flags false, reverse_actions is called but
\* issues no simulator write, does not fail and leaves the flags false.
Idempotence ==
    \A a \in Areas :
       last[a].evaluated =>
          /\ StableOver(a) =>
                /\ last[a].calls \cap ActivationCalls = {}
                /\ last[a].writes = {}
                /\ ~last[a].raised
                /\ limited_speed[a] = last[a].pre.limited_speed
                /\ tls_adjusted[a] = last[a].pre.tls_adjusted
                /\ locked[a] = last[a].pre.locked
          /\ StableUnder(a) =>
                /\ last[a].calls = {"reverse_actions"}
                /\ last[a].writes = {}
                /\ ~last[a].raised
                /\ ~limited_speed[a] /\ ~tls_adjusted[a] /\ ~locked[a]

\* one Area re-evaluated over threshold with its speed limit already active
\* while another is re-evaluated under threshold with nothing active
IdempotenceWitness ==
    \E a, b \in Areas :
       /\ last[a].evaluated /\ last[b].evaluated
       /\ StableOver(a) /\ config.limit_speed_mode /\ config.lock_area_mode
       /\ StableUnder(b) /\ last[b].step > 0

\* C5: a failed action call does not abort the run: every Area is evaluated in
\* every one of the n_steps steps.
ActionFailureIsolated ==
    (Exited /\ failed.area # NoArea) =>
       /\ step = config.n_steps
       /\ \A a \in Areas : Len(emissions_by_step[a]) = config.n_steps

\* C6: however run exits, the connection has been closed and the total of the
\* accumulated emissions has been emitted.
TeardownOnEveryExit ==
    Exited =>
       /\ conn = "closed"
       /\ total_emissions = SumGrid(grid, emissions_by_step)

\* C7: after a failed activation the flag is false and the run goes on to the
\* next step, where the activation is attempted again.
RetryAfterFailedActivation ==
    (Exited /\ failed.area # NoArea /\ failed.call \in ActivationCalls
       /\ failed.step + 1 < config.n_steps) =>
       /\ failed.call = "limit_speed_into_area" => ~limited_speed[failed.area]
       /\ failed.call = "adjust_traffic_light_phase_duration" => ~tls_adjusted[failed.area]
       /\ failed.call = "lock_area" => ~locked[failed.area]
       /\ step > failed.step

\* C8: lock_area is invoked, and locked becomes true, only for an Area the
\* simulator counts at least one vehicle in; an Area over threshold with
\* locking enabled and not yet locked has its vehicles counted whether or not
\* speed limiting is enabled or active.
LockingOccupancyGuard ==
    \A a \in Areas :
       last[a].evaluated =>
          /\ "lock_area" \in last[a].calls => last[a].count > 0
          /\ (locked[a] /\ ~last[a].pre.locked) => last[a].count > 0
          /\ (OverNow(a) /\ config.lock_area_mode /\ ~last[a].pre.locked
                /\ ~(last[a].raised /\ "lock_area" \notin last[a].calls)) =>
                /\ "count_vehicles_in_area" \in last[a].calls
                /\ "lock_area" \in last[a].calls <=> last[a].count > 0

\* an Area over threshold, locking enabled, speed limiting disabled, no
\* vehicle counted: it stays unlocked
LockingOccupancyGuardWitness ==
    \E a \in Areas :
       /\ last[a].evaluated /\ OverNow(a)
       /\ config.lock_area_mode /\ ~config.limit_speed_mode
       /\ "count_vehicles_in_area" \in last[a].calls
       /\ last[a].count = 0
       /\ ~locked[a]

\* C9: the windowed sum compared to the threshold at step k is
\* s_max(0,k-W+1) + ... + s_k of the Area's sequence, whose last entry s_k is
\* the one appended in step k.
RollingWindow ==
    \A a \in Areas :
       last[a].evaluated =>
          /\ Len(emissions_by_step[a]) = last[a].step + 1
          /\ last[a].wsum = RollingSum(emissions_by_step[a], last[a].step,
                                       config.window_size)
          /\ "reverse_actions" \in last[a].calls
                <=> last[a].wsum < config.emissions_threshold

\* a step at which the window has slid past a non-zero entry
RollingWindowWitness ==
    \E a \in Areas :
       /\ last[a].evaluated
       /\ last[a].step >= config.window_size
       /\ emissions_by_step[a][1] > 0
       /\ last[a].wsum > 0
       /\ last[a].wsum < sum_all_emissions(emissions_by_step[a])

\* C10: after every completed step each Area's sequence has one entry per
\* step executed so far; at the normal end of the run it has n_steps entries.
NoGaps ==
    /\ pc = "loop" => \A a \in Areas : Len(emissions_by_step[a]) = step
    /\ pc = "done" => \A a \in Areas : Len(emissions_by_step[a]) = config.n_steps

\* a completed run in which one Area never held a vehicle and another went
\* over threshold
NoGapsWitness ==
    /\ pc = "done"
    /\ \E a, b \in Areas :
          /\ sum_all_emissions(emissions_by_step[a]) = 0
          /\ Len(emissions_by_step[a]) = config.n_steps
          /\ OverNow(b)

\* the world rectangle and the cells in the cells' unit: a square <<x, y>> is
\* the unit square whose lower left corner is <<x, y>>
UnitSquares ==
    LET r == (-(MaxCells * MaxCoord))..(MaxCells * MaxCoord) IN r \X r

InWorld(sq) ==
    /\ areas_number * simulation_bounds[1][1] <= sq[1]
    /\ sq[1] < areas_number * simulation_bounds[2][1]
    /\ areas_number * simulation_bounds[1][2] <= sq[2]
    /\ sq[2] < areas_number * simulation_bounds[2][2]

Covers(c, sq) ==
    /\ c.xmin <= sq[1] /\ sq[1] < c.xmax
    /\ c.ymin <= sq[2] /\ sq[2] < c.ymax

\* C11: for any network boundary and any N > 0, init_grid returns N*N Areas
\* of width world_width/N and height world_height/N that cover exactly the
\* world rectangle without overlap, with pairwise distinct names.
GridTiling ==
    (grid_result = "returned" /\ areas_number > 0) =>
       /\ Len(cells) = areas_number * areas_number
       /\ \A k \in 1..Len(cells) :
             /\ cells[k].xmax - cells[k].xmin
                  = simulation_bounds[2][1] - simulation_bounds[1][1]
             /\ cells[k].ymax - cells[k].ymin
                  = simulation_bounds[2][2] - simulation_bounds[1][2]
       /\ \A sq \in UnitSquares :
             Cardinality({k \in 1..Len(cells) : Covers(cells[k], sq)})
               = IF InWorld(sq) THEN 1 ELSE 0
       /\ \A k, m \in 1..Len(cells) : cells[k].name = cells[m].name => k = m

\* C12: init_grid fails with a ConfigurationError for areas_number <= 0.
InvalidGridSizeRejected ==
    (grid_result # "pending" /\ areas_number <= 0) =>
       grid_result = "ConfigurationError"

\* C18: lock_area changes the maximum speed only of the lanes that
\* intersect the Area and reroutes only the vehicles inside the Area.
LockAreaFrame ==
    factory_area # NoArea =>
       /\ \A l \in Lanes :
             ~Intersects(factory_area, lane_shape[l]) => lane_speed[l] = LaneMaxSpeed
       /\ \A v \in rerouted : Contains(factory_area, v.pos)

\* the lane speeds of the loaded network, before any action
UntouchedLanes == [l \in Lanes |-> LaneMaxSpeed]

OrderIndependence ==
    (failed = NoFailure /\ other_order # NoOutcome) =>
       other_order = [emissions_by_step |-> emissions_by_step,
                      limited_speed |-> limited_speed,
                      tls_adjusted |-> tls_adjusted,
                      locked |-> locked,
                      lane_speed |-> lane_speed]

\* C15: after the step in which an Area's active actions are reversed, every
\* lane of the Area has the initial maximum speed recorded by get_all_lanes.
RoundTrip ==
    \A a \in Areas :
       ( /\ last[a].evaluated /\ failed = NoFailure
         /\ last[a].pre.limited_speed \/ last[a].pre.locked
         /\ ~OverNow(a) ) =>
          \A l \in AreaLanes(a) : lane_speed[l] = initial_max_speed[l]

\* C16: with speed limiting enabled and no failed action call, after every
\* step speed_limited of an Area is true if and only if that step's windowed
\* sum is at or over the threshold.
NoDeadband ==
    (config.limit_speed_mode /\ failed = NoFailure) =>
       \A a \in Areas : last[a].evaluated => (limited_speed[a] <=> OverNow(a))

\* an Area over threshold, under it and over it again on three consecutive
\* steps, limited twice and limited now
NoDeadbandWitness ==
    /\ config.limit_speed_mode
    /\ failed = NoFailure
    /\ \E a \in Areas :
          /\ last[a].evaluated
          /\ Len(emissions_by_step[a]) = 3
          /\ OverAt(emissions_by_step[a], 0)
          /\ ~OverAt(emissions_by_step[a], 1)
          /\ OverAt(emissions_by_step[a], 2)
          /\ n_limit_calls[a] = 2
          /\ limited_speed[a]

\* C17: the entries appended in a step add up to the emissions of the
\* vehicles sampled in that step, and the total logged at the end of a run
\* is the sum of all sampled vehicle emissions.
EmissionConservation ==
    /\ (\A a \in Areas : last[a].evaluated) =>
          SumOver(Areas, [a \in Areas |-> emissions_by_step[a][Len(emissions_by_step[a])]])
            = SnapshotEmissions(vehicles)
    /\ (total_emissions # NotEmitted /\ exc = "none") => total_emissions = sampled
====
